---------------------------- MODULE Spec2Model ----------------------------
(***************************************************************************)
(* A model of S3manager.py: the INI reader (class ConfigParser), the text  *)
(* file helper (class FileManager) and the remote storage client (class    *)
(* S3manager).                                                             *)
(*                                                                         *)
(* Python strings that the code inspects character by character (INI       *)
(* values, file names) are sequences of one-character strings.  Python     *)
(* values of mixed type (str, bool, None) are pairs <<type, chars>>.       *)
(***************************************************************************)
EXTENDS Naturals, Sequences, FiniteSets, TLC

VARIABLES
    parser,                   \* ConfigParser._parser: what read() has accumulated
    configuration_file_path,  \* ConfigParser._configuration_file_path
    readerLast,               \* outcome of the last get_config_as_dictionary call
    readerCalls,              \* number of get_config_as_dictionary calls made
    disk,                     \* FileManager's file system: path -> content
    opens,                    \* number of open() calls FileManager has made
    fileLast,                 \* outcome of the last read_file / write_file call
    fileCalls,                \* number of read_file / write_file calls made
    auth_token,               \* S3manager.__auth_token
    config_file,              \* the file at the hard-coded authorizers path
    parses,                   \* configuration parses this client has made
    assigns,                  \* assignments to __auth_token after construction
    sent,                     \* the HTTP requests issued, in order
    clientLast,               \* outcome of the last upload_file / download_file
    clientCalls,              \* number of upload_file / download_file calls
    constructedWith           \* the auth_token keyword given to S3manager()

readerVars == <<parser, configuration_file_path, readerLast, readerCalls>>
fileVars   == <<disk, opens, fileLast, fileCalls>>
clientVars == <<auth_token, config_file, parses, assigns, sent, clientLast,
                clientCalls, constructedWith>>
vars       == <<readerVars, fileVars, clientVars>>

---------------------------------------------------------------------------
(* Bounds of the model. *)
MaxParseCalls == 3
MaxFileCalls == 3
MaxClientCalls == 3

---------------------------------------------------------------------------
(* Python values. *)
\* None where a path (a plain string) is expected.
None == "None"
PyNone == <<"NoneType", <<>>>>
PyTrue == <<"bool", <<"True">>>>
PyFalse == <<"bool", <<"False">>>>
PyStr(s) == <<"str", s>>
IsStr(v) == v[1] = "str"

\* bool(v): None, False and '' are falsy.
Truthy(v) == v \notin {PyNone, PyFalse, PyStr(<<>>)}

\* `x or None`
OrNone(v) == IF Truthy(v) THEN v ELSE PyNone

EmptyDict == [k \in {} |-> <<>>]

\* d1 updated with d2 (dict.update).
Update(d1, d2) ==
    [k \in DOMAIN d1 \cup DOMAIN d2 |-> IF k \in DOMAIN d2 THEN d2[k] ELSE d1[k]]

---------------------------------------------------------------------------
(* str.lower, str.strip and the substring test on character sequences. *)
LowerChar(c) ==
    CASE c = "T" -> "t" [] c = "R" -> "r" [] c = "U" -> "u" [] c = "E" -> "e"
      [] c = "F" -> "f" [] c = "A" -> "a" [] c = "L" -> "l" [] c = "S" -> "s"
      [] c = "X" -> "x" [] c = "C" -> "c" [] c = "V" -> "v"
      [] OTHER -> c

Lower(s) == [i \in 1..Len(s) |-> LowerChar(s[i])]

IsSpace(c) == c \in {" ", "\t", "\n"}

RECURSIVE LStrip(_)
LStrip(s) == IF s # <<>> /\ IsSpace(Head(s)) THEN LStrip(Tail(s)) ELSE s

RECURSIVE RStrip(_)
RStrip(s) ==
    IF s # <<>> /\ IsSpace(s[Len(s)]) THEN RStrip(SubSeq(s, 1, Len(s) - 1)) ELSE s

Strip(s) == RStrip(LStrip(s))

\* `sub in s` for str
Contains(s, sub) ==
    \E i \in 0..(Len(s) - Len(sub)) : SubSeq(s, i + 1, i + Len(sub)) = sub

---------------------------------------------------------------------------
(* configparser.ConfigParser as the code uses it: read(), items() and      *)
(* items(section), with the class's default BasicInterpolation.            *)

\* A parsed INI file: the [DEFAULT] keys and the other sections' keys.
IniFile(defaults, sections) ==
    [exists |-> TRUE, defaults |-> defaults, sections |-> sections]

\* A path at which open() fails.
NoFile == [exists |-> FALSE, defaults |-> EmptyDict, sections |-> EmptyDict]

FileAt(fs, path) == IF path \in DOMAIN fs THEN fs[path] ELSE NoFile

\* configparser.ConfigParser(): no defaults, no sections.
NewParser == [defaults |-> EmptyDict, sections |-> EmptyDict]

\* parser.read(path): a file that cannot be opened is skipped silently; a
\* file that can is merged into what the parser already holds.
Read(p, file) ==
    IF ~file.exists THEN p
    ELSE [defaults |-> Update(p.defaults, file.defaults),
          sections |->
              [s \in DOMAIN p.sections \cup DOMAIN file.sections |->
                  IF s \notin DOMAIN file.sections THEN p.sections[s]
                  ELSE IF s \notin DOMAIN p.sections THEN file.sections[s]
                  ELSE Update(p.sections[s], file.sections[s])]]

\* parser.items(): the section names, the implicit DEFAULT among them.
SectionNames(p) == {"DEFAULT"} \cup DOMAIN p.sections

\* BasicInterpolation on one value: "%%" becomes "%"; a "%" followed by
\* anything else is a syntax error ("%(name)s" references are not modelled:
\* no modelled value holds a parenthesis).
RECURSIVE Interpolate(_)
Interpolate(s) ==
    IF s = <<>> THEN [ok |-> TRUE, s |-> <<>>]
    ELSE IF Head(s) # "%"
    THEN LET r == Interpolate(Tail(s))
         IN  [ok |-> r.ok, s |-> <<Head(s)>> \o r.s]
    ELSE IF Len(s) >= 2 /\ s[2] = "%"
    THEN LET r == Interpolate(SubSeq(s, 3, Len(s)))
         IN  [ok |-> r.ok, s |-> <<"%">> \o r.s]
    ELSE [ok |-> FALSE, s |-> <<>>]

\* The raw keys of a section as items(section) sees them: the defaults
\* updated with the section's own keys.
RawItems(p, section) ==
    IF section = "DEFAULT" THEN p.defaults
    ELSE Update(p.defaults, p.sections[section])

\* Whether items(section) raises InterpolationSyntaxError.
ItemsRaise(p, section) ==
    \E k \in DOMAIN RawItems(p, section) : ~Interpolate(RawItems(p, section)[k]).ok

\* dict(parser.items(section))
Items(p, section) ==
    [k \in DOMAIN RawItems(p, section) |-> Interpolate(RawItems(p, section)[k]).s]

---------------------------------------------------------------------------
(* class ConfigParser *)

\* The literals 'true' and 'false'.
StrTrue == <<"t", "r", "u", "e">>
StrFalse == <<"f", "a", "l", "s", "e">>

\* The lambda of get_config_as_dictionary.
convert(val) ==
    IF Strip(Lower(val)) = StrTrue THEN PyTrue
    ELSE IF Strip(Lower(val)) = StrFalse THEN PyFalse
    ELSE PyStr(val)

Raise(exc, path) ==
    [kind |-> "raise", exc |-> exc, path |-> path, value |-> EmptyDict]

Return(value, path) ==
    [kind |-> "return", exc |-> "", path |-> path, value |-> value]

\* The path get_config_as_dictionary reads: the argument unless it is falsy,
\* then the instance's path; None when neither is set.
EffectivePath(arg, preset) == IF arg \in {None, ""} THEN preset ELSE arg

\* The entry-count test: at most the implicit default is there.
NoSections(p) == Cardinality(SectionNames(p)) <= 1

\* get_config_as_dictionary on a parser in state p: the parser state it
\* leaves and what the call returns or raises.
get_config_as_dictionary(p, preset, arg, fs) ==
    LET path == EffectivePath(arg, preset)
        p1   == Read(p, FileAt(fs, path))
    IN  IF path = None
        THEN [parser |-> p, outcome |-> Raise("ValueError", path)]
        ELSE IF NoSections(p1)
        THEN [parser |-> p1, outcome |-> Raise("FileNotFoundError", path)]
        ELSE IF \E s \in SectionNames(p1) : ItemsRaise(p1, s)
        THEN [parser |-> p1, outcome |-> Raise("InterpolationSyntaxError", path)]
        ELSE [parser |-> p1,
              outcome |-> Return(
                  [s \in SectionNames(p1) |->
                      [k \in DOMAIN Items(p1, s) |-> convert(Items(p1, s)[k])]],
                  path)]

\* The INI files of the reader's file system.  Values are as read() stores
\* them; a value that starts on a continuation line keeps its leading
\* newline.
ReaderFS ==
    ( "a.ini"       :> IniFile(EmptyDict, ("a" :> ("x" :> <<"1">>)))
   @@ "b.ini"       :> IniFile(EmptyDict,
                               ( "a" :> ("on" :> <<"\n", "T", "r", "u", "e">>)
                              @@ "b" :> ("off" :> <<"F", "A", "L", "S", "E">>
                                      @@ "y" :> <<"t", "r", "u", "e", "x">>) ))
   @@ "default.ini" :> IniFile(("d" :> <<"x">>), EmptyDict)
   @@ "empty.ini"   :> IniFile(EmptyDict, EmptyDict)
   @@ "pct.ini"     :> IniFile(EmptyDict, ("p" :> ("v" :> <<"5", "%", "%">>)))
   @@ "bad.ini"     :> IniFile(EmptyDict, ("p" :> ("w" :> <<"5", "%">>))) )

\* The paths a caller passes or presets: the files above, a path with no
\* file, the empty string and None.
ReaderPaths == DOMAIN ReaderFS \cup {"missing.ini", "", None}

NoCall == [kind |-> "none", exc |-> "", path |-> None, value |-> EmptyDict]

\* ConfigParser(config_file_path = path)
ReaderInit ==
    /\ parser = NewParser
    /\ \E path \in ReaderPaths :
           configuration_file_path = IF path \in {None, ""} THEN None ELSE path
    /\ readerLast = NoCall
    /\ readerCalls = 0

\* reader.get_config_as_dictionary(arg)
GetConfigAsDictionary(arg) ==
    /\ readerCalls < MaxParseCalls
    /\ LET r == get_config_as_dictionary(parser, configuration_file_path, arg,
                                         ReaderFS)
       IN  /\ parser' = r.parser
           /\ readerLast' = r.outcome
    /\ readerCalls' = readerCalls + 1
    /\ UNCHANGED <<configuration_file_path, fileVars, clientVars>>

\* reader.configuration_file_path = value
SetConfigurationFilePath(value) ==
    /\ configuration_file_path' = value
    /\ UNCHANGED <<parser, readerLast, readerCalls, fileVars, clientVars>>

---------------------------------------------------------------------------
(* class FileManager *)

\* self.__supported_types
supported_types == {<<"c", "s", "v">>, <<"t", "x", "t">>}

\* A type check that accepts a supported type only at the end of the name.
type_supported_suffix(file_name) ==
    \E supported_type \in supported_types :
        /\ Len(file_name) >= Len(supported_type)
        /\ SubSeq(file_name, Len(file_name) - Len(supported_type) + 1,
                  Len(file_name)) = supported_type

\* The loop over the supported types: a substring match anywhere in the name.
type_supported(file_name) ==
    \E supported_type \in supported_types : Contains(file_name, supported_type)

\* "".join((file_location, "\\" if len(file_location) > 0 else "", file_name));
\* the backslash is the path separator of the platform the code is written
\* for (its paths are Windows and UNC paths).
file_path(file_name, file_location) ==
    file_location \o (IF Len(file_location) > 0 THEN <<"\\">> ELSE <<>>) \o file_name

\* The directories of the file system: the working directory (the empty
\* location), "d" and a directory that is named "txt".
Directories == {<<>>, <<"d">>, <<"t", "x", "t">>}

\* The names, locations and contents callers pass.
FileNames ==
    { <<"a", ".", "t", "x", "t">>, <<"t", "x", "t", ".", "a">>,
      <<"b", ".", "c", "s", "v">>, <<"a", ".", "T", "X", "T">>,
      <<"a", ".", "p", "y">>, <<"t", "x", "t">>, <<"t", "x">>, <<>> }
FileLocations == {<<>>, <<"d">>, <<"n">>}
FileContents == {"", "C"}

StrResult(str) == [type |-> "str", str |-> str, dict |-> EmptyDict]
DictResult(dict) == [type |-> "dict", str |-> "", dict |-> dict]

FileOutcome(op, name, location, kind, exc, value) ==
    [op |-> op, name |-> name, location |-> location, kind |-> kind,
     exc |-> exc, value |-> value]

FileInit ==
    /\ disk \in {EmptyDict, (<<"a", ".", "t", "x", "t">> :> "C")}
    /\ opens = 0
    /\ fileLast = FileOutcome("none", <<>>, <<>>, "none", "", StrResult(""))
    /\ fileCalls = 0

\* file_manager.read_file(file_name, file_location)
read_file(file_name, file_location) ==
    LET path == file_path(file_name, file_location)
        Out(kind, exc, value) ==
            FileOutcome("read", file_name, file_location, kind, exc, value)
    IN  /\ fileCalls < MaxFileCalls
        /\ fileCalls' = fileCalls + 1
        /\ UNCHANGED <<readerVars, clientVars>>
        /\ disk' = disk
        /\ IF ~type_supported(file_name)
           THEN /\ fileLast' = Out("raise", "TypeError", StrResult(""))
                /\ opens' = opens
           ELSE /\ opens' = opens + 1
                /\ fileLast' =
                       IF path \in DOMAIN disk
                       THEN Out("return", "", StrResult(disk[path]))
                       ELSE IF path \in Directories
                       THEN Out("raise", "Exception", StrResult(""))
                       ELSE Out("raise", "FileNotFoundError", StrResult(""))

\* file_manager.write_file(file_name, file_location, content)
write_file(file_name, file_location, content) ==
    LET path == file_path(file_name, file_location)
        result == "successful"
        Out(kind, exc, value) ==
            FileOutcome("write", file_name, file_location, kind, exc, value)
    IN  /\ fileCalls < MaxFileCalls
        /\ fileCalls' = fileCalls + 1
        /\ UNCHANGED <<readerVars, clientVars>>
        /\ IF ~type_supported(file_name)
           THEN /\ fileLast' = Out("raise", "TypeError", StrResult(""))
                /\ UNCHANGED <<opens, disk>>
           ELSE /\ opens' = opens + 1
                /\ IF path \in Directories
                   THEN /\ fileLast' = Out("raise", "Exception", StrResult(""))
                        /\ disk' = disk
                   ELSE IF file_location \notin Directories
                   THEN /\ fileLast' = Out("raise", "FileNotFoundError", StrResult(""))
                        /\ disk' = disk
                   ELSE /\ fileLast' = Out("return", "", DictResult(result :> result))
                        /\ disk' = Update(disk, path :> content)

---------------------------------------------------------------------------
(* class S3manager *)

\* self.__api_url
api_url == "https://tqz3wlewoc.execute-api.eu-west-1.amazonaws.com/s3store"

\* The hard-coded path of __set_up_auth_token.
config_file_path ==
    "\\\\ant\\dept-eu\\TBA\\UK\\Business Analyses\\CentralOPS\\BIA\\AWS_authorizers\\AWS_authorizers.ini"

DictValue(dict) == [type |-> "dict", dict |-> dict]
NoneValue == [type |-> "NoneType", dict |-> EmptyDict]

\* What __set_up_auth_token leaves: the token, the exception it raised (""
\* when none) with the path the exception names, and how many configuration
\* parses and token assignments it made.
SetUp(token, exc, path, nparses, nassigns) ==
    [token |-> token, exc |-> exc, path |-> path, parses |-> nparses,
     assigns |-> nassigns]

\* A token set-up that swallows FileNotFoundError instead of raising it.
set_up_auth_token_swallow(token, token_value, file) ==
    IF token_value # PyNone
    THEN SetUp(token_value, "", None, 0, 1)
    ELSE LET r == get_config_as_dictionary(NewParser, None, config_file_path,
                                           config_file_path :> file).outcome
         IN  IF r.kind = "raise"
             THEN SetUp(token, IF r.exc = "FileNotFoundError" THEN "" ELSE r.exc,
                        None, 1, 0)
             ELSE IF "authorizers" \notin DOMAIN r.value
                     \/ "auth-token" \notin DOMAIN r.value["authorizers"]
             THEN SetUp(token, "KeyError", None, 1, 0)
             ELSE SetUp(r.value["authorizers"]["auth-token"], "", None, 1, 1)

\* self.__set_up_auth_token(token_value) with the client's token being
\* `token` and `file` being the file at the hard-coded path.
set_up_auth_token(token, token_value, file) ==
    IF token_value # PyNone
    THEN SetUp(token_value, "", None, 0, 1)
    ELSE LET r == get_config_as_dictionary(NewParser, None, config_file_path,
                                           config_file_path :> file).outcome
         IN  IF r.kind = "raise"
             THEN SetUp(token, r.exc,
                        IF r.exc = "FileNotFoundError" THEN config_file_path ELSE None,
                        1, 0)
             ELSE IF "authorizers" \notin DOMAIN r.value
                     \/ "auth-token" \notin DOMAIN r.value["authorizers"]
             THEN SetUp(token, "KeyError", None, 1, 0)
             ELSE SetUp(r.value["authorizers"]["auth-token"], "", None, 1, 1)

\* A token check that sets the token up on every call.
ensure_token_every_call(token, file) == set_up_auth_token(token, PyNone, file)

\* `if not self.__auth_token: self.__set_up_auth_token()`
ensure_token(token, file) ==
    IF ~Truthy(token) THEN set_up_auth_token(token, PyNone, file)
    ELSE SetUp(token, "", None, 0, 0)

\* The request of upload_file / download_file.
Request(method, token, data) ==
    [method |-> method, url |-> api_url, headers |-> ("auth-token" :> token),
     data |-> data]

\* What the remote endpoint may answer: a status and a body that is either
\* not JSON or a JSON object over the keys the code looks at.
StatusCodes == {200, 404}
JsonBodies ==
    { [k \in keys |-> CASE k = "errorType" -> "X"
                        [] k = "errorMessage" -> "Y"
                        [] OTHER -> "hello"] :
      keys \in SUBSET {"errorType", "errorMessage", "Body"} }
Responses ==
    [status_code : StatusCodes, is_json : {TRUE}, body : JsonBodies]
      \cup [status_code : StatusCodes, is_json : {FALSE}, body : {EmptyDict}]
NoResponse == [status_code |-> 0, is_json |-> FALSE, body |-> EmptyDict]

\* What a call returns or raises, and whether it called response.json().
Handled(kind, exc, value, json_called) ==
    [kind |-> kind, exc |-> exc, value |-> value, json_called |-> json_called]

\* An upload_file that reports the error's type as the reason.
upload_response_reason_type(response) ==
    IF response.status_code = 200
    THEN IF ~response.is_json
         THEN Handled("raise", "JSONDecodeError", NoneValue, TRUE)
         ELSE IF "errorType" \in DOMAIN response.body
         THEN Handled("return", "",
                      DictValue(  "result" :> "fail"
                               @@ "reason" :> response.body["errorType"]),
                      TRUE)
         ELSE Handled("return", "", DictValue("result" :> "success"), TRUE)
    ELSE Handled("return", "", NoneValue, FALSE)

\* An upload_file that decodes the body whatever the status.
upload_response_any_status(response) ==
    IF ~response.is_json
    THEN Handled("raise", "JSONDecodeError", NoneValue, TRUE)
    ELSE IF "errorType" \in DOMAIN response.body
    THEN IF "errorMessage" \in DOMAIN response.body
         THEN Handled("return", "",
                      DictValue(  "result" :> "fail"
                               @@ "reason" :> response.body["errorMessage"]),
                      TRUE)
         ELSE Handled("raise", "KeyError", NoneValue, TRUE)
    ELSE Handled("return", "", DictValue("result" :> "success"), TRUE)

\* upload_file after the request: `if response.status_code == 200: ...`.
upload_response(response) ==
    IF response.status_code = 200
    THEN IF ~response.is_json
         THEN Handled("raise", "JSONDecodeError", NoneValue, TRUE)
         ELSE IF "errorType" \in DOMAIN response.body
         THEN IF "errorMessage" \in DOMAIN response.body
              THEN Handled("return", "",
                           DictValue(  "result" :> "fail"
                                    @@ "reason" :> response.body["errorMessage"]),
                           TRUE)
              ELSE Handled("raise", "KeyError", NoneValue, TRUE)
         ELSE Handled("return", "", DictValue("result" :> "success"), TRUE)
    ELSE Handled("return", "", NoneValue, FALSE)

\* A download_file whose success result is upload_file's: no data.
download_response_no_data(response) == upload_response(response)

\* download_file after the request: `if response.status_code == 200: ...`.
download_response(response) ==
    IF response.status_code = 200
    THEN IF ~response.is_json
         THEN Handled("raise", "JSONDecodeError", NoneValue, TRUE)
         ELSE IF "errorType" \in DOMAIN response.body
         THEN IF "errorMessage" \in DOMAIN response.body
              THEN Handled("return", "",
                           DictValue(  "result" :> "fail"
                                    @@ "reason" :> response.body["errorMessage"]),
                           TRUE)
              ELSE Handled("raise", "KeyError", NoneValue, TRUE)
         ELSE IF "Body" \in DOMAIN response.body
         THEN Handled("return", "",
                      DictValue(  "result" :> "success"
                               @@ "data" :> response.body["Body"]),
                      TRUE)
         ELSE Handled("raise", "KeyError", NoneValue, TRUE)
    ELSE Handled("return", "", NoneValue, FALSE)

\* Whether the request goes out once the token step is over: not when that
\* step raised, and not when the header value is not a str, which requests
\* refuses (InvalidHeader) before anything is sent.
Issued(setup) == setup.exc = "" /\ IsStr(setup.token)

\* What the call returns or raises, given what the response code yields.
Finish(setup, handled) ==
    IF setup.exc # "" THEN Handled("raise", setup.exc, NoneValue, FALSE)
    ELSE IF ~Issued(setup) THEN Handled("raise", "InvalidHeader", NoneValue, FALSE)
    ELSE handled

\* The record of one call.
CallRecord(op, token_before, setup, response, h) ==
    [op |-> op, kind |-> h.kind, exc |-> h.exc, exc_path |-> setup.path,
     value |-> h.value, json_called |-> h.json_called,
     token_before |-> token_before, parses |-> setup.parses,
     assigns |-> setup.assigns, issued |-> Issued(setup),
     response |-> IF Issued(setup) THEN response ELSE NoResponse]

BucketNames == {"bucketA"}
ObjectNames == {"f.txt"}
Contents == {"hello"}

\* s3_manager.upload_file(bucket_name, object_name, content); `response` is
\* what the endpoint answers if the request goes out.
upload_file(bucket_name, object_name, content) ==
    /\ clientCalls < MaxClientCalls
    /\ \E response \in Responses :
        LET setup == ensure_token(auth_token, config_file)
            request == Request("POST", setup.token,
                               [bucketName |-> bucket_name,
                                objectName |-> object_name,
                                content |-> content])
        IN  /\ auth_token' = setup.token
            /\ parses' = parses + setup.parses
            /\ assigns' = assigns + setup.assigns
            /\ sent' = IF Issued(setup) THEN Append(sent, request) ELSE sent
            /\ clientLast' = CallRecord("upload_file", auth_token, setup, response,
                                        Finish(setup, upload_response(response)))
    /\ clientCalls' = clientCalls + 1
    /\ UNCHANGED <<config_file, constructedWith, readerVars, fileVars>>

\* s3_manager.download_file(bucket_name, object_name)
download_file(bucket_name, object_name) ==
    /\ clientCalls < MaxClientCalls
    /\ \E response \in Responses :
        LET setup == ensure_token(auth_token, config_file)
            request == Request("GET", setup.token,
                               [bucketName |-> bucket_name,
                                objectName |-> object_name])
        IN  /\ auth_token' = setup.token
            /\ parses' = parses + setup.parses
            /\ assigns' = assigns + setup.assigns
            /\ sent' = IF Issued(setup) THEN Append(sent, request) ELSE sent
            /\ clientLast' = CallRecord("download_file", auth_token, setup, response,
                                        Finish(setup, download_response(response)))
    /\ clientCalls' = clientCalls + 1
    /\ UNCHANGED <<config_file, constructedWith, readerVars, fileVars>>

\* The files the hard-coded path may hold.
Authorizers(value) == IniFile(EmptyDict, ("authorizers" :> ("auth-token" :> value)))
ConfigFiles ==
    { NoFile,
      IniFile(("auth-token" :> <<"k">>), EmptyDict),
      IniFile(("auth-token" :> <<"d">>), ("authorizers" :> EmptyDict)),
      IniFile(EmptyDict, ("other" :> ("auth-token" :> <<"k">>))),
      IniFile(EmptyDict, ("authorizers" :> ("user" :> <<"u">>))),
      Authorizers(<<"k">>),
      Authorizers(<<>>),
      Authorizers(<<"F", "a", "l", "s", "e">>),
      Authorizers(<<"t", "r", "u", "e">>),
      Authorizers(<<"k", "%">>) }

\* The auth_token keyword of S3manager(**kwargs): absent, '' or a token.
TokenArguments == {PyNone, PyStr(<<>>), PyStr(<<"t", "0">>)}

NoClientCall ==
    [op |-> "none", kind |-> "none", exc |-> "", exc_path |-> None,
     value |-> NoneValue, json_called |-> FALSE, token_before |-> PyNone,
     parses |-> 0, assigns |-> 0, issued |-> FALSE, response |-> NoResponse]

\* S3manager(auth_token = ...)
ClientInit ==
    /\ constructedWith \in TokenArguments
    /\ auth_token = OrNone(constructedWith)
    /\ config_file \in ConfigFiles
    /\ parses = 0
    /\ assigns = 0
    /\ sent = <<>>
    /\ clientLast = NoClientCall
    /\ clientCalls = 0

---------------------------------------------------------------------------
(* The three specifications: one per class, the other classes' state idle. *)

ReaderIdle ==
    /\ parser = NewParser
    /\ configuration_file_path = None
    /\ readerLast = NoCall
    /\ readerCalls = 0

FileIdle ==
    /\ disk = EmptyDict
    /\ opens = 0
    /\ fileLast = FileOutcome("none", <<>>, <<>>, "none", "", StrResult(""))
    /\ fileCalls = 0

ClientIdle ==
    /\ constructedWith = PyNone
    /\ auth_token = PyNone
    /\ config_file = NoFile
    /\ parses = 0
    /\ assigns = 0
    /\ sent = <<>>
    /\ clientLast = NoClientCall
    /\ clientCalls = 0

ReaderStart == ReaderInit /\ FileIdle /\ ClientIdle
FileStart   == ReaderIdle /\ FileInit /\ ClientIdle
ClientStart == ReaderIdle /\ FileIdle /\ ClientInit

ReaderNext ==
    \/ \E arg \in ReaderPaths : GetConfigAsDictionary(arg)
    \/ \E value \in ReaderPaths : SetConfigurationFilePath(value)

FileNext ==
    \/ \E n \in FileNames, l \in FileLocations : read_file(n, l)
    \/ \E n \in FileNames, l \in FileLocations, c \in FileContents :
           write_file(n, l, c)

ClientNext ==
    \/ \E b \in BucketNames, o \in ObjectNames, c \in Contents :
           upload_file(b, o, c)
    \/ \E b \in BucketNames, o \in ObjectNames : download_file(b, o)

SpecReader == ReaderStart /\ [][ReaderNext]_vars
SpecFiles  == FileStart /\ [][FileNext]_vars
SpecClient == ClientStart /\ [][ClientNext]_vars

---------------------------------------------------------------------------
(* Claims about ConfigParser.get_config_as_dictionary (under SpecReader). *)

\* The file the last call was about.
LastFile == FileAt(ReaderFS, readerLast.path)

\* A file's total entries as the reader counts them: its sections and the
\* implicit default.
TotalEntries(file) == Cardinality(DOMAIN file.sections) + 1

\* Whether raw, with surrounding whitespace trimmed and case ignored, is word.
LooksLike(raw, word) ==
    \E i \in 1..(Len(raw) + 1), j \in 0..Len(raw) :
        /\ \A n \in 1..Len(raw) : (n < i \/ n > j) => IsSpace(raw[n])
        /\ Lower(SubSeq(raw, i, j)) = word

\* The value the specification gives for a raw value of the file.
Typed(raw) ==
    IF LooksLike(raw, StrTrue) THEN PyTrue
    ELSE IF LooksLike(raw, StrFalse) THEN PyFalse
    ELSE PyStr(raw)

\* C6: whenever the path of a parse call holds no file, or a file with zero
\* or one total entries, the call fails with FileNotFoundError and returns
\* no mapping; this is to hold for every call on a reader.
C6_FewEntriesRaiseNotFound ==
    (/\ readerLast.kind # "none"
     /\ readerLast.path # None
     /\ (~LastFile.exists \/ TotalEntries(LastFile) <= 1))
    => (readerLast.kind = "raise" /\ readerLast.exc = "FileNotFoundError")

\* C7: the outcome of every parse call on a reader is the outcome a freshly
\* constructed reader gives for the same path: nothing an earlier call read
\* appears in, or changes, a later call's outcome.
C7_OutcomeAsFreshReader ==
    readerLast.kind # "none"
    => readerLast =
           get_config_as_dictionary(NewParser, None, readerLast.path,
                                    ReaderFS).outcome

\* C8: a parse call on a file with at least two total entries returns the
\* two-level mapping of that file: every key is a key of the file, a value
\* that reads true or false (trimmed, any case) is the boolean, and every
\* other value is the file's string unchanged.
C8_MappingOfTheFile ==
    (/\ readerLast.kind # "none"
     /\ readerLast.path # None
     /\ LastFile.exists
     /\ TotalEntries(LastFile) >= 2)
    => /\ readerLast.kind = "return"
       /\ \A s \in DOMAIN readerLast.value :
              \A k \in DOMAIN readerLast.value[s] :
                  /\ s \in SectionNames(LastFile)
                  /\ k \in DOMAIN RawItems(LastFile, s)
                  /\ readerLast.value[s][k] = Typed(RawItems(LastFile, s)[k])

---------------------------------------------------------------------------
(* Claims about FileManager (under SpecFiles). *)

\* Whether marker occurs in name at some position.
OccursIn(marker, name) ==
    \E start \in 1..Len(name) :
        \A n \in 1..Len(marker) :
            start + n - 1 <= Len(name) /\ name[start + n - 1] = marker[n]

HasMarker(name) ==
    OccursIn(<<"c", "s", "v">>, name) \/ OccursIn(<<"t", "x", "t">>, name)

\* C9: a read_file or write_file call whose file name contains neither
\* "csv" nor "txt" raises TypeError without opening, creating or changing
\* any file; a call whose name contains one of them anywhere passes the
\* type check.
C9_TypeCheckBeforeFileSystem ==
    [][fileCalls' # fileCalls =>
          IF HasMarker(fileLast'.name)
          THEN fileLast'.exc # "TypeError"
          ELSE /\ fileLast'.kind = "raise"
               /\ fileLast'.exc = "TypeError"
               /\ opens' = opens
               /\ disk' = disk]_vars

\* A name without a marker was refused after a file was written under a
\* name that has its marker in the middle.
C9_Witness ==
    /\ fileLast.exc = "TypeError"
    /\ ~HasMarker(fileLast.name)
    /\ <<"t", "x", "t", ".", "a">> \in DOMAIN disk

---------------------------------------------------------------------------
(* Claims about S3manager (under SpecClient). *)

\* The configuration file cannot be found: there is no file at the path, or
\* the file has no section besides the implicit default.
ConfigNotFound(file) == ~file.exists \/ DOMAIN file.sections = {}

\* The last call got a response with this status and a JSON object body.
GotJson(status) ==
    /\ clientLast.issued
    /\ clientLast.response.status_code = status
    /\ clientLast.response.is_json

Body == clientLast.response.body

\* C1 as stated: a client constructed with a token never parses; a client
\* constructed without one has made exactly one parse and one assignment
\* once its first call is over, and no later call adds a parse or changes
\* the token.
C1_ExactlyOneParse ==
    /\ Truthy(constructedWith) => parses = 0
    /\ (~Truthy(constructedWith) /\ clientCalls >= 1)
          => (parses = 1 /\ assigns = 1)
    /\ clientCalls >= 2 => clientLast.token_before = auth_token

\* C1 as amended: a client constructed with a non-empty token never parses;
\* a call made while the token is empty makes exactly one parse and at most
\* one assignment; a call made once the token is non-empty makes no parse
\* and no assignment and leaves the token as it is.
C1_NoParseOnceNonEmpty ==
    /\ [](Truthy(constructedWith) => parses = 0 /\ assigns = 0)
    /\ [][clientCalls' # clientCalls =>
            IF Truthy(auth_token)
            THEN /\ parses' = parses
                 /\ assigns' = assigns
                 /\ auth_token' = auth_token
            ELSE /\ parses' = parses + 1
                 /\ assigns' \in {assigns, assigns + 1}
                 /\ assigns' = assigns => auth_token' = auth_token]_vars

\* A client constructed without a token resolved it on its first call and
\* went through a non-200 answer and two more requests without another
\* parse.
C1_Witness ==
    /\ constructedWith = PyNone
    /\ clientCalls >= 3
    /\ parses = 1
    /\ assigns = 1
    /\ Len(sent) >= 3
    /\ clientLast.response.status_code = 404

\* C2: a call made while the token is empty and the configuration file
\* cannot be found raises FileNotFoundError naming the hard-coded path after
\* one parse, issues no request and leaves the token unset.
C2_ConfigNotFoundRaises ==
    [][(/\ clientCalls' # clientCalls
        /\ ~Truthy(auth_token)
        /\ ConfigNotFound(config_file))
       => /\ clientLast'.kind = "raise"
          /\ clientLast'.exc = "FileNotFoundError"
          /\ clientLast'.exc_path = config_file_path
          /\ parses' = parses + 1
          /\ assigns' = assigns
          /\ sent' = sent
          /\ auth_token' = auth_token
          /\ ~Truthy(auth_token')]_vars

\* A second call failed the same way on a file that exists but has only
\* default keys.
C2_Witness ==
    /\ clientCalls >= 2
    /\ config_file.exists
    /\ ConfigNotFound(config_file)
    /\ clientLast.exc = "FileNotFoundError"
    /\ clientLast.op = "download_file"
    /\ parses = 2

\* C3 as stated: on a 200 response whose JSON body has the key errorType the
\* call returns {"result": "fail", "reason": body.errorMessage} and does
\* not raise.
C3_ErrorTypeReturnsFailure ==
    (GotJson(200) /\ "errorType" \in DOMAIN Body)
    => /\ clientLast.kind = "return"
       /\ "errorMessage" \in DOMAIN Body
       /\ clientLast.value = DictValue(  "result" :> "fail"
                                      @@ "reason" :> Body["errorMessage"])

\* C3 as amended: on a 200 response whose JSON body has the keys errorType
\* and errorMessage the call returns
\* {"result": "fail", "reason": body.errorMessage} and does not raise.
C3_ErrorPayloadReturnsFailure ==
    (GotJson(200) /\ "errorType" \in DOMAIN Body /\ "errorMessage" \in DOMAIN Body)
    => /\ clientLast.kind = "return"
       /\ clientLast.value = DictValue(  "result" :> "fail"
                                      @@ "reason" :> Body["errorMessage"])

\* A download got an error payload that also carries a Body.
C3_Witness ==
    /\ GotJson(200)
    /\ clientLast.op = "download_file"
    /\ DOMAIN Body = {"errorType", "errorMessage", "Body"}
    /\ clientLast.value.dict["reason"] = "Y"

\* C4 as stated: on a 200 response whose JSON body has no errorType key,
\* upload_file returns {"result": "success"} and download_file returns
\* {"result": "success", "data": body.Body}.
C4_NoErrorTypeReturnsSuccess ==
    (GotJson(200) /\ "errorType" \notin DOMAIN Body)
    => /\ clientLast.kind = "return"
       /\ clientLast.op = "upload_file"
             => clientLast.value = DictValue("result" :> "success")
       /\ clientLast.op = "download_file"
             => /\ "Body" \in DOMAIN Body
                /\ clientLast.value = DictValue(  "result" :> "success"
                                               @@ "data" :> Body["Body"])

\* C4 as amended: on a 200 response whose JSON body has no errorType key,
\* upload_file returns {"result": "success"}; download_file returns
\* {"result": "success", "data": body.Body} when the body has the key Body.
C4_SuccessPayload ==
    (GotJson(200) /\ "errorType" \notin DOMAIN Body)
    => /\ clientLast.op = "upload_file"
             => /\ clientLast.kind = "return"
                /\ clientLast.value = DictValue("result" :> "success")
       /\ (clientLast.op = "download_file" /\ "Body" \in DOMAIN Body)
             => /\ clientLast.kind = "return"
                /\ clientLast.value = DictValue(  "result" :> "success"
                                               @@ "data" :> Body["Body"])

\* The example: a download answered 200 with {"Body": "hello"}.
C4_Witness ==
    /\ GotJson(200)
    /\ clientLast.op = "download_file"
    /\ Body = ("Body" :> "hello")
    /\ clientLast.value.dict = ("result" :> "success" @@ "data" :> "hello")

C10_NoRequestWithoutToken ==
    \A i \in 1..Len(sent) :
        /\ Truthy(sent[i].headers["auth-token"])
        /\ sent[i].headers["auth-token"] = auth_token

=============================================================================
